---- MODULE Spec2Model ----
(***************************************************************************)
(* State-machine model of IndusNetAgent (src/src/agents/indusnet/agent.py) *)
(* on asyncio's cooperative scheduler: every action below is one           *)
(* synchronous run of code between two suspension points (await).          *)
(*                                                                         *)
(* Python values are modelled by strings; None is the string "None".       *)
(* Variables that are not fields of the agent are history variables: they  *)
(* record what happened (which packet wrote a field, which return path a   *)
(* handler took) and are never read by the modelled code.                  *)
(***************************************************************************)
EXTENDS Integers, Sequences, FiniteSets, TLC

\* ------------------------------------------------------------------ bounds

\* Number of request_user_location tool calls the runtime makes in a session.
MaxCalls == 2

\* Number of request_user_location calls that can be running at once.
MaxInFlight == 2

\* Number of background tasks (asyncio.create_task) alive at once.
MaxTasks == 2

\* Number of publish_ui_stream tool calls the runtime makes in a session.
MaxStreams == 2

\* Number of payloads the card generator yields for one stream, at most.
MaxCards == 2

\* Number of calls the runtime makes in a session of the tools that run to
\* their return on their own (search, contact forms, meeting, user info,
\* distance).
MaxTools == 2

\* ---------------------------------------------------------------- constants

None == "None"

FRONTEND_CONTEXT == {"ui.context", "user.context", "user.location"}
TOPIC_UI_FLASHCARD == "ui.flashcard"
TOPIC_CONTACT_FORM == "ui.contact_form"
TOPIC_USER_LOCATION == "user.location"
TOPIC_UI_LOCATION_REQUEST == "ui.location_request"

Calls == 1 .. MaxInFlight
Streams == 1 .. MaxStreams

\* ------------------------------------------------------------------- inputs

\* Coordinates and accuracy a frontend may report.
Lats == {"12.9", "22.5"}
Lngs == {"77.6"}
Accs == {"25"}

\* The JSON object of a user.location packet; a key that is absent reads as
\* None through dict.get.  "other" stands for any status string the code
\* does not name.
LocationBodies ==
    [status : {"success"}, latitude : {"12.9"}, longitude : Lngs,
     accuracy : Accs]
    \cup [status : {"success"}, latitude : {"22.5"}, longitude : Lngs,
          accuracy : {None}]
    \cup [status : {"denied", "unsupported", "other", None},
          latitude : {None}, longitude : {None}, accuracy : {None}]

\* The JSON object of a user.context packet.  user_info is "absent" (the key
\* is missing: dict.get gives {}), "object" (its four keys read with
\* dict.get) or "scalar" (a JSON value that is no object).
UserBodies ==
    [user_info : {"object"}, user_id : {"u1"}, user_name : {"Asha"},
     user_email : {"a@x.io"}, user_phone : {None, "555"}]
    \cup [user_info : {"object"}, user_id : {None},
          user_name : {None, "", "Guest", "guest"}, user_email : {None},
          user_phone : {None}]
    \cup [user_info : {"absent", "scalar"}, user_id : {None}, user_name : {None},
          user_email : {None}, user_phone : {None}]

\* The JSON object of a ui.context packet: the active_elements list
\* (has_elements is FALSE when the key is missing) and whether viewport is an
\* object, is missing, or is a JSON value that is no object.
UiBodies ==
    [has_elements : {TRUE}, viewport : {"object"},
     active_elements : {<<"hero">>, <<"hero", "pricing">>}]
    \cup [has_elements : {FALSE}, viewport : {"object", "absent"},
          active_elements : {<<>>}]
    \cup [has_elements : {TRUE}, viewport : {"scalar"},
          active_elements : {<<"hero">>}]

\* The body of a packet that carries no JSON object, read as the code would
\* read {}: every key absent.
NoBody ==
    [status |-> None, latitude |-> None, longitude |-> None,
     accuracy |-> None, user_info |-> "absent", user_id |-> None,
     user_name |-> None, user_email |-> None, user_phone |-> None,
     has_elements |-> FALSE, viewport |-> "absent", active_elements |-> <<>>]

\* What rtc.DataPacket.data holds, by what the code can do with it:
\*   "none"      no data attribute, or None
\*   "empty"     b"" (or bytes that decode to "" with errors="ignore")
\*   "malformed" text json.loads rejects
\*   "scalar"    JSON text of a value that is no object (5, [1], "x", null)
\*   "object"    JSON text of an object, parsed into body
BodiesOf(topic) ==
    CASE topic = "user.location" -> LocationBodies
      [] topic = "user.context" -> UserBodies
      [] topic = "ui.context" -> UiBodies
      [] OTHER -> {NoBody}

PacketsOn(topic) ==
    [topic : {topic}, form : {"none", "empty", "malformed", "scalar"},
     body : {NoBody}]
    \cup [topic : {topic}, form : {"object"}, body : BodiesOf(topic)]

\* Topics a room can deliver that are not frontend context: another named
\* topic, and a packet with no topic at all.
ForeignTopics == {TOPIC_UI_FLASHCARD, None}

NoPacket == [topic |-> None, form |-> "none", body |-> NoBody]

\* --------------------------------------------------------------------- state

VARIABLES
    \* Context State (agent.py 40-45)
    user_id, user_name, user_email, user_phone, active_elements,
    \* Location State (agent.py 47-52)
    location_status, user_lat, user_lng, location_accuracy, location_event,
    \* Agent.instructions, as last pushed by update_instructions
    instructions,
    \* request_user_location coroutines, one per running tool call, and the
    \* number of calls made so far
    pc, signalled, frame, outcome, calls_made,
    \* background tasks created with asyncio.create_task
    tasks,
    \* packets handed to room.local_participant.publish_data, in order
    published,
    \* history: return path and log level of the last handle_data
    hd,
    \* history: the user.location packet that last wrote location_status /
    \* last set location_event ("reset" after request_user_location's reset)
    status_src, event_src,
    \* history per waiting call: the packet whose set() completed its wait
    woken_by,
    \* history: a location request reached the frontend and its call timed out
    stale_request,
    \* _publish_ui_stream coroutines, one per running card stream, and the
    \* number of uuid.uuid4() values drawn so far
    streams, uuids,
    \* history: every call of _publish_data_packet by a card stream, in
    \* order, with whether publish_data succeeded
    attempted,
    \* history: what each publish_ui_stream tool call returned
    stream_result,
    \* history: the element list of the last ui.context packet handled
    ui_last,
    \* db_results (agent.py 38), as last formatted by _vector_db_search
    db_results,
    \* the coroutine of the running call of one of the other tools, and the
    \* number of such calls made so far
    tool, tools_made,
    \* history of the running such call: the collaborator calls it
    \* made, what the collaborator gave back, and whether its packet reached
    \* the room
    tool_log,
    \* history: some request_user_location call has returned the success
    \* outcome
    granted

ctx_vars == <<user_id, user_name, user_email, user_phone, active_elements>>
loc_vars == <<location_status, user_lat, user_lng, location_accuracy>>
call_vars == <<pc, signalled, frame, outcome, calls_made>>
hist_vars == <<status_src, event_src, woken_by, stale_request>>
stream_vars == <<streams, uuids, attempted, stream_result>>
tool_vars == <<db_results, tool, tools_made, tool_log>>
ext_vars == <<stream_vars, ui_last, tool_vars, granted>>
vars == <<ctx_vars, loc_vars, location_event, instructions, call_vars, tasks,
          published, hd, hist_vars, ext_vars>>

\* History record of a write to the location state: by a packet (with what
\* it carried, the calls that had begun when it was handled, and whether it
\* answers a request whose call had already timed out), by the reset of
\* request_user_location (with what it wiped: "nothing", a "response" or a
\* "late response"), or by the constructor.
Src(by, status, latitude, longitude, started, late, wiped) ==
    [by |-> by, status |-> status, latitude |-> latitude,
     longitude |-> longitude, started |-> started, late |-> late,
     wiped |-> wiped]
NoSrc == Src("init", None, None, None, {}, FALSE, "nothing")
ResetSrc(prev) ==
    Src("reset", None, None, None, {}, FALSE,
        IF prev.by # "packet" THEN "nothing"
        ELSE IF prev.late THEN "late response" ELSE "response")

\* What completed call c's wait: the packet handled while c was suspended
\* in it (success when its status was "success", with the coordinates it
\* then carried), or ("flag") the event being set already when c came to
\* wait.
SeenBy(src) ==
    [by |-> src.by,
     success |-> src.status = "success",
     latitude |-> IF src.status = "success" THEN src.latitude ELSE None,
     longitude |-> IF src.status = "success" THEN src.longitude ELSE None]
NotSeen == SeenBy(NoSrc)
SeenFlag == [NotSeen EXCEPT !.by = "flag"]
\* The locals of a running call: the accuracy formatted into accuracy_note
\* (while the reverse geocoder runs) and, as history while its wait is not
\* complete, whether its request reached the frontend.
NoFrame == [accuracy |-> None, requested |-> FALSE]
\* An instruction text, by its parts: the base instructions, the user block
\* and the elements listed in the UI block (none: no UI block).  NoText is
\* the text the constructor passes to BaseAgent: the base instructions alone.
NoText == [base |-> TRUE, user |-> <<>>, ui |-> <<>>]

\* What a request_user_location call returned: the kind of its string and
\* the values formatted into it.
Outcome(kind, lat, lng, accuracy, address) ==
    [kind |-> kind, lat |-> lat, lng |-> lng, accuracy |-> accuracy,
     address |-> address]
NoOutcome == Outcome("none", None, None, None, None)
\* The locals of a _publish_ui_stream coroutine (stream_id is 0 before
\* line 418 has run; db_results is its parameter) and, as history, the
\* number of payloads the generator has yielded to it and the db_results
\* argument query_process_stream was called with.
NoStream == [at |-> "idle", stream_id |-> 0, card_index |-> 0, emitted |-> 0,
             db_results |-> <<>>, query |-> <<>>]
\* No ui.context packet has been handled yet.
NoUiLast == [seen |-> FALSE, elements |-> <<>>]
\* No packet built yet by a tool.
NoPayload == [topic |-> None, type |-> None]
\* No tool call is running: name is the tool, at the suspension point it is
\* at ("done" / "raised" once it returned a string / raised), arg the
\* argument its path depends on, payload the packet it built and result the
\* string it returned, by kind ("db_results": the text of that field).
NoTool == [name |-> None, at |-> "idle", arg |-> None, payload |-> NoPayload,
           result |-> None]
NoToolLog == [calls |-> 0, collab |-> None, sent |-> "none"]

Init ==
    /\ user_id = None /\ user_name = None /\ user_email = None
    /\ user_phone = None /\ active_elements = <<>>
    /\ location_status = None /\ user_lat = None /\ user_lng = None
    /\ location_accuracy = None /\ location_event = FALSE
    /\ instructions = NoText
    /\ pc = [c \in Calls |-> "idle"]
    /\ signalled = [c \in Calls |-> FALSE]
    /\ frame = [c \in Calls |-> NoFrame]
    /\ outcome = [c \in Calls |-> NoOutcome]
    /\ tasks = <<>>
    /\ published = <<>>
    /\ hd = [exit |-> "none", warned |-> FALSE]
    /\ status_src = NoSrc /\ event_src = NoSrc
    /\ woken_by = [c \in Calls |-> NotSeen]
    /\ calls_made = 0
    /\ stale_request = FALSE
    /\ streams = [t \in Streams |-> NoStream]
    /\ uuids = 0
    /\ attempted = <<>>
    /\ stream_result = [t \in Streams |-> None]
    /\ ui_last = NoUiLast
    /\ db_results = <<>>
    /\ tool = NoTool
    /\ tools_made = 0
    /\ tool_log = NoToolLog
    /\ granted = FALSE

\* ------------------------------------------------------ pure helper functions

\* Python truthiness of an optional string: None and "" are falsy.
Truthy(s) == s \notin {None, ""}

\* str.lower() on the names the inputs use.
Lower(s) ==
    CASE s = "Guest" -> "guest"
      [] s = "GUEST" -> "guest"
      [] s = "Asha" -> "asha"
      [] OTHER -> s

\* _extract_payload_text: None when the packet has no data, else the decoded
\* text, which the model keeps as the class of what it spells.
extract_payload_text(data) ==
    CASE data.form = "none" -> None
      [] data.form = "empty" -> ""
      [] OTHER -> data.form

\* json.loads(payload_text) raises JSONDecodeError exactly on text that is
\* not JSON; a JSON value that is no object parses.
JsonParses(text) == text \notin {None, "", "malformed"}

\* ------------------------------------------------------------- handle_data

\* Variant of the return path without the topic filter of lines 336-338.
Route_without_topic_filter(data) ==
    IF ~Truthy(extract_payload_text(data)) THEN "empty"
    ELSE IF ~JsonParses(extract_payload_text(data)) THEN "json"
    ELSE IF data.topic = "ui.context" THEN "ui"
    ELSE IF data.topic = "user.context"
         THEN IF data.form = "scalar" \/ data.body.user_info = "scalar"
              THEN "raise" ELSE "user"
    ELSE IF data.topic = "user.location"
         THEN IF data.form = "scalar" THEN "raise" ELSE "location"
    ELSE "end"

\* Variant of the return path whose JSONDecodeError handler goes on with an
\* empty object in place of the return of line 350.
Route_parse_error_as_empty_object(data) ==
    IF data.topic \notin FRONTEND_CONTEXT THEN "topic"
    ELSE IF ~Truthy(extract_payload_text(data)) THEN "empty"
    ELSE IF data.topic = "ui.context" THEN "ui"
    ELSE IF data.topic = "user.context"
         THEN IF data.form = "scalar" \/ data.body.user_info = "scalar"
              THEN "raise" ELSE "user"
    ELSE IF data.topic = "user.location"
         THEN IF data.form = "scalar" THEN "raise" ELSE "location"
    ELSE "end"

\* The return path handle_data takes for a packet:
\*   "topic"    line 338, topic not in FRONTEND_CONTEXT
\*   "empty"    line 342, no payload text
\*   "json"     line 350, after the JSON parse warning
\*   "ui"       falls off the end after creating the ui.context task
\*   "user"     line 368
\*   "location" line 390
\*   "raise"    AttributeError from .get on a parsed value that is no object
\*   "end"      falls off the end with no branch taken
Route(data) ==
    IF data.topic \notin FRONTEND_CONTEXT THEN "topic"
    ELSE IF ~Truthy(extract_payload_text(data)) THEN "empty"
    ELSE IF ~JsonParses(extract_payload_text(data)) THEN "json"
    ELSE IF data.topic = "ui.context" THEN "ui"
    ELSE IF data.topic = "user.context"
         THEN IF data.form = "scalar" \/ data.body.user_info = "scalar"
              THEN "raise" ELSE "user"
    ELSE IF data.topic = "user.location"
         THEN IF data.form = "scalar" THEN "raise" ELSE "location"
    ELSE "end"

\* Whether the user.context branch creates the _update_instructions task
\* (line 365), given the name it has just stored.
RebuildOnUserContext(name) == Truthy(name) /\ Lower(name) # "guest"

\* user_info.get(key) of a user.context payload; user_info defaults to {}.
UserInfoGet(body, key) ==
    IF body.user_info = "object" THEN body[key] ELSE None

\* The tasks handle_data creates for a packet on return path r.
TasksCreated(data, r) ==
    CASE r = "ui" -> <<[kind |-> "ui", at |-> "created", payload |-> data,
                        text |-> NoText]>>
      [] r = "user" /\ RebuildOnUserContext(UserInfoGet(data.body, "user_name"))
           -> <<[kind |-> "instr", at |-> "created", payload |-> NoPacket,
                 text |-> NoText]>>
      [] OTHER -> <<>>

\* Variant of the user.location branch that sets the event only inside the
\* success branch.
location_branch_set_on_success(body, src) ==
    /\ location_status' = body.status
    /\ status_src' = src
    /\ IF body.status = "success"
       THEN /\ user_lat' = body.latitude
            /\ user_lng' = body.longitude
            /\ location_accuracy' = body.accuracy
            /\ location_event' = TRUE
            /\ signalled' = [c \in Calls |-> signalled[c] \/ pc[c] = "wait"]
            /\ event_src' = src
            /\ woken_by' = [c \in Calls |->
                              IF pc[c] = "wait" /\ ~signalled[c]
                              THEN SeenBy(src) ELSE woken_by[c]]
            /\ frame' = [c \in Calls |->
                           IF pc[c] = "wait" THEN NoFrame ELSE frame[c]]
       ELSE UNCHANGED <<user_lat, user_lng, location_accuracy, location_event,
                        signalled, event_src, woken_by, frame>>

\* The user.location branch (lines 370-390) on a parsed object.
location_branch(body, src) ==
    /\ location_status' = body.status
    /\ IF body.status = "success"
       THEN /\ user_lat' = body.latitude
            /\ user_lng' = body.longitude
            /\ location_accuracy' = body.accuracy
       ELSE UNCHANGED <<user_lat, user_lng, location_accuracy>>
    \* asyncio.Event.set(): the flag, and the future of every waiter
    /\ location_event' = TRUE
    /\ signalled' = [c \in Calls |-> signalled[c] \/ pc[c] = "wait"]
    /\ status_src' = src
    /\ event_src' = src
    /\ woken_by' = [c \in Calls |->
                      IF pc[c] = "wait" /\ ~signalled[c]
                      THEN SeenBy(src)
                      ELSE woken_by[c]]
    /\ frame' = [c \in Calls |->
                   IF pc[c] = "wait" THEN NoFrame ELSE frame[c]]

\* The user.context branch (lines 356-368).
user_branch(body) ==
    /\ user_id' = UserInfoGet(body, "user_id")
    /\ user_name' = UserInfoGet(body, "user_name")
    /\ user_email' = UserInfoGet(body, "user_email")
    /\ user_phone' = UserInfoGet(body, "user_phone")

\* handle_data(data), lines 333-390.  src is the history record of the
\* packet (what it carried and when it was handled).
handle_data(data, src) ==
    LET r == Route(data) IN
    /\ tasks' = tasks \o TasksCreated(data, r)
    /\ IF r = "user" THEN user_branch(data.body)
       ELSE UNCHANGED <<user_id, user_name, user_email, user_phone>>
    /\ IF r = "location" THEN location_branch(data.body, src)
       ELSE UNCHANGED <<loc_vars, location_event, signalled, frame,
                        status_src, event_src, woken_by>>
    /\ UNCHANGED <<active_elements, instructions, pc, outcome, calls_made,
                   published, stale_request>>

\* History of the last handle_data: its return path and whether it logged
\* at warning level (line 347 on a JSON parse failure, line 386 on a
\* location status other than "success").
Handled(data) ==
    [exit |-> Route(data),
     warned |-> \/ Route(data) = "json"
                \/ Route(data) = "location" /\ data.body.status # "success"]

\* ---------------------------------------------------- _publish_data_packet

\* _publish_data_packet (lines 401-412): the packet reaches the room when
\* publish_data succeeds (ok); a failure is logged and swallowed.
publish_data_packet(packet, ok) ==
    IF ok THEN Append(published, packet) ELSE published

\* -------------------------------------------------- request_user_location

\* Variant of the start of request_user_location without the
\* _location_event.clear() of line 234.
request_user_location_reset_keeps_event(c) ==
    /\ pc[c] = "idle"
    /\ \A d \in Calls : d < c => pc[d] # "idle"
    /\ calls_made < MaxCalls
    /\ calls_made' = calls_made + 1
    /\ location_status' = None
    /\ user_lat' = None
    /\ user_lng' = None
    /\ location_accuracy' = None
    /\ status_src' = ResetSrc(status_src)
    /\ pc' = [pc EXCEPT ![c] = "publish"]
    /\ UNCHANGED <<ctx_vars, location_event, instructions, signalled, frame,
                   outcome, tasks, published, hd, event_src, woken_by,
                   stale_request>>
    /\ UNCHANGED ext_vars

\* Lines 227-241, up to the first suspension (publish_data): the reset of
\* the location state and of the event.  A new call is numbered with the
\* lowest number no running call has.
request_user_location_reset(c) ==
    /\ pc[c] = "idle"
    /\ \A d \in Calls : d < c => pc[d] # "idle"
    /\ calls_made < MaxCalls
    /\ calls_made' = calls_made + 1
    /\ location_status' = None
    /\ user_lat' = None
    /\ user_lng' = None
    /\ location_accuracy' = None
    /\ location_event' = FALSE
    /\ status_src' = ResetSrc(status_src)
    /\ event_src' = ResetSrc(event_src)
    /\ pc' = [pc EXCEPT ![c] = "publish"]
    /\ UNCHANGED <<ctx_vars, instructions, signalled, frame, outcome, tasks,
                   published, hd, woken_by, stale_request>>
    /\ UNCHANGED ext_vars

\* Lines 238-245: publish_data returns (or fails) and the call starts to
\* wait.  Event.wait() is complete at once when the flag is already set.
request_user_location_wait(c) ==
    /\ pc[c] = "publish"
    /\ \E ok \in BOOLEAN :
         /\ published' = publish_data_packet(
                [topic |-> TOPIC_UI_LOCATION_REQUEST,
                 type |-> "location_request"], ok)
         /\ frame' = [frame EXCEPT ![c].requested = ok /\ ~location_event]
    /\ pc' = [pc EXCEPT ![c] = "wait"]
    /\ signalled' = [signalled EXCEPT ![c] = location_event]
    /\ woken_by' = [woken_by EXCEPT ![c] =
                      IF location_event THEN SeenFlag
                      ELSE woken_by[c]]
    /\ UNCHANGED <<ctx_vars, loc_vars, location_event, instructions,
                   outcome, calls_made, tasks, hd, status_src, event_src,
                   stale_request>>
    /\ UNCHANGED ext_vars

\* Lines 264-269: the outcome of a woken call whose status is not "success".
StatusOutcome(status) ==
    CASE status = "denied" -> "denied"
      [] status = "unsupported" -> "unsupported"
      [] OTHER -> "unknown"

\* Variant of the timeout that swallows TimeoutError and goes on to the
\* status branches of lines 249-269.
request_user_location_timeout_falls_through(c) ==
    /\ pc[c] = "wait"
    /\ ~signalled[c]
    /\ pc' = [pc EXCEPT ![c] = "done"]
    /\ outcome' = [outcome EXCEPT ![c] =
                     Outcome(StatusOutcome(location_status), None, None, None,
                             None)]
    /\ stale_request' = (stale_request \/ frame[c].requested)
    /\ frame' = [frame EXCEPT ![c] = NoFrame]
    /\ UNCHANGED <<ctx_vars, loc_vars, location_event, instructions,
                   signalled, calls_made, tasks, published, hd, status_src,
                   event_src, woken_by>>
    /\ UNCHANGED ext_vars

\* Lines 246-247: asyncio.wait_for raises TimeoutError, which can happen
\* only while the wait is not complete.
request_user_location_timeout(c) ==
    /\ pc[c] = "wait"
    /\ ~signalled[c]
    /\ pc' = [pc EXCEPT ![c] = "done"]
    /\ outcome' = [outcome EXCEPT ![c] =
                     Outcome("timeout", None, None, None, None)]
    /\ stale_request' = (stale_request \/ frame[c].requested)
    /\ frame' = [frame EXCEPT ![c] = NoFrame]
    /\ UNCHANGED <<ctx_vars, loc_vars, location_event, instructions,
                   signalled, calls_made, tasks, published, hd, status_src,
                   event_src, woken_by>>
    /\ UNCHANGED ext_vars

\* Lines 249-269: the woken call resumes and branches on the status it
\* reads now.  On "success" it formats accuracy_note and suspends in the
\* reverse-geocode call; otherwise it returns.
request_user_location_woken(c) ==
    /\ pc[c] = "wait"
    /\ signalled[c]
    /\ IF location_status = "success"
       THEN /\ pc' = [pc EXCEPT ![c] = "geocode"]
            /\ frame' = [frame EXCEPT ![c] =
                  [accuracy |-> location_accuracy, requested |-> FALSE]]
            /\ UNCHANGED <<outcome, woken_by>>
       ELSE /\ pc' = [pc EXCEPT ![c] = "done"]
            /\ outcome' = [outcome EXCEPT ![c] =
                  Outcome(StatusOutcome(location_status), None, None, None,
                          None)]
            /\ frame' = [frame EXCEPT ![c] = NoFrame]
            /\ woken_by' = [woken_by EXCEPT ![c] = NotSeen]
    /\ UNCHANGED <<ctx_vars, loc_vars, location_event, instructions,
                   signalled, calls_made, tasks, published, hd, status_src,
                   event_src, stale_request>>
    /\ UNCHANGED ext_vars

\* GoogleMapService.get_location (the reverse geocoder request_user_location
\* calls as get_current_location): None without an API key, on no result and
\* on any request error; else a dict that always has formatted_address.
get_location(lat, lng) == {None, "MG Road, Bengaluru"}

\* Lines 257-263: the reverse geocoder returns.  location.get on None raises
\* AttributeError out of the tool; otherwise the success string is
\* formatted from the coordinates the agent holds now.
request_user_location_geocoded(c) ==
    /\ pc[c] = "geocode"
    /\ \E location \in get_location(user_lat, user_lng) :
         IF location = None
         THEN /\ pc' = [pc EXCEPT ![c] = "raised"]
              /\ outcome' = [outcome EXCEPT ![c] =
                    Outcome("AttributeError", None, None, None, None)]
         ELSE /\ pc' = [pc EXCEPT ![c] = "done"]
              /\ outcome' = [outcome EXCEPT ![c] =
                    Outcome("success", user_lat, user_lng, frame[c].accuracy,
                            location)]
    /\ granted' = (granted \/ pc'[c] = "done")
    /\ frame' = [frame EXCEPT ![c] = NoFrame]
    /\ woken_by' = [woken_by EXCEPT ![c] = NotSeen]
    /\ UNCHANGED <<ctx_vars, loc_vars, location_event, instructions,
                   signalled, calls_made, tasks, published, hd, status_src,
                   event_src, stale_request>>
    /\ UNCHANGED <<stream_vars, ui_last, tool_vars>>

\* The runtime takes the result of a finished call (its string, or the
\* exception it raised); the coroutine and its locals are gone.
request_user_location_returned(c) ==
    /\ pc[c] \in {"done", "raised"}
    /\ pc' = [pc EXCEPT ![c] = "idle"]
    /\ signalled' = [signalled EXCEPT ![c] = FALSE]
    /\ outcome' = [outcome EXCEPT ![c] = NoOutcome]
    /\ status_src' = [status_src EXCEPT !.started = @ \ {c}]
    /\ event_src' = [event_src EXCEPT !.started = @ \ {c}]
    /\ UNCHANGED <<ctx_vars, loc_vars, location_event, instructions, frame,
                   calls_made, tasks, published, hd, woken_by,
                   stale_request>>
    /\ UNCHANGED ext_vars

\* ------------------------------------------------------- background tasks

\* Variant of the composed text whose test of the name is case-sensitive.
InstructionText_case_sensitive(name, email, phone, elements) ==
    [base |-> TRUE,
     user |-> IF name \notin {None, "", "guest"}
              THEN <<"Current User Information", name,
                     IF email \in {None, ""} THEN "Not provided" ELSE email,
                     IF phone \in {None, ""} THEN "Not provided" ELSE phone>>
              ELSE <<"User Identity: Unknown">>,
     ui |-> elements]

\* x or 'Not provided'
OrNotProvided(x) == IF Truthy(x) THEN x ELSE "Not provided"

\* The text _update_instructions composes (lines 535-567) from the fields it
\* reads, all in one synchronous run.
InstructionText(name, email, phone, elements) ==
    [base |-> TRUE,
     user |-> IF Truthy(name) /\ Lower(name) # "guest"
              THEN <<"Current User Information", name, OrNotProvided(email),
                     OrNotProvided(phone)>>
              ELSE <<"User Identity: Unknown">>,
     ui |-> elements]

RemoveAt(seq, i) == SubSeq(seq, 1, i - 1) \o SubSeq(seq, i + 1, Len(seq))

\* ui_context["active_elements"] (line 521): the payload's list, [] when
\* the key is missing.
PayloadElements(body) ==
    IF body.has_elements THEN body.active_elements ELSE <<>>

\* Variant of the start of a task in which _update_instructions extends the
\* instructions the agent holds instead of starting from the base text.
task_start_extends_current(i) ==
    /\ tasks[i].at = "created"
    /\ IF tasks[i].kind = "ui"
       THEN IF tasks[i].payload.form = "scalar"
               \/ tasks[i].payload.body.viewport = "scalar"
            THEN tasks' = RemoveAt(tasks, i)
            ELSE tasks' = [tasks EXCEPT ![i].at = "context"]
       ELSE tasks' = [tasks EXCEPT
                ![i].at = "push",
                ![i].text =
                    [base |-> TRUE,
                     user |-> instructions.user \o
                              <<"User Identity: Unknown">>,
                     ui |-> active_elements]]
    /\ UNCHANGED <<ctx_vars, loc_vars, location_event, instructions,
                   call_vars, published, hd, hist_vars>>
    /\ UNCHANGED ext_vars

\* A created task runs to its first suspension.  _update_ui_context (lines
\* 513-525) raises AttributeError on a payload, or a viewport, that is no
\* object, which ends the task; else it suspends in the card generator's
\* update_instructions_with_context.  _update_instructions (lines 531-570)
\* composes the text and suspends in Agent.update_instructions.
task_start(i) ==
    /\ tasks[i].at = "created"
    /\ IF tasks[i].kind = "ui"
       THEN IF tasks[i].payload.form = "scalar"
               \/ tasks[i].payload.body.viewport = "scalar"
            THEN tasks' = RemoveAt(tasks, i)
            ELSE tasks' = [tasks EXCEPT ![i].at = "context"]
       ELSE tasks' = [tasks EXCEPT
                ![i].at = "push",
                ![i].text = InstructionText(user_name, user_email, user_phone,
                                            active_elements)]
    /\ UNCHANGED <<ctx_vars, loc_vars, location_event, instructions,
                   call_vars, published, hd, hist_vars>>
    /\ UNCHANGED ext_vars

\* Lines 527-529 and 531-570: update_instructions_with_context returns;
\* _update_ui_context stores the element list and _update_instructions
\* composes the text from the state as it is now, then suspends in
\* Agent.update_instructions.
task_context_updated(i) ==
    /\ tasks[i].at = "context"
    /\ active_elements' = PayloadElements(tasks[i].payload.body)
    /\ tasks' = [tasks EXCEPT
            ![i].at = "push",
            ![i].text = InstructionText(user_name, user_email, user_phone,
                                        active_elements')]
    /\ UNCHANGED <<user_id, user_name, user_email, user_phone, loc_vars,
                   location_event, instructions, call_vars, published, hd,
                   hist_vars>>
    /\ UNCHANGED ext_vars

\* Variant of the push that reads _active_elements again when
\* Agent.update_instructions returns, after the rest of the text was composed.
task_pushed_rereads_elements(i) ==
    /\ tasks[i].at = "push"
    /\ instructions' = [tasks[i].text EXCEPT !.ui = active_elements]
    /\ tasks' = RemoveAt(tasks, i)
    /\ UNCHANGED <<ctx_vars, loc_vars, location_event, call_vars, published,
                   hd, hist_vars>>
    /\ UNCHANGED ext_vars

\* Line 570: Agent.update_instructions returns; the text is the agent's
\* instructions and the task ends.
task_pushed(i) ==
    /\ tasks[i].at = "push"
    /\ instructions' = tasks[i].text
    /\ tasks' = RemoveAt(tasks, i)
    /\ UNCHANGED <<ctx_vars, loc_vars, location_event, call_vars, published,
                   hd, hist_vars>>
    /\ UNCHANGED ext_vars

\* ------------------------------------------------------- card stream

\* A packet a card stream hands to _publish_data_packet on ui.flashcard: a
\* card payload stamped with stream_id and card_index (index), or the
\* end_of_stream marker with card_count (index).
StreamPacket(type, stream_id, index) ==
    [topic |-> TOPIC_UI_FLASHCARD, type |-> type, stream_id |-> stream_id,
     index |-> index]

\* Variant of publish_ui_stream that awaits _publish_ui_stream: it runs the
\* start of the stream itself and has returned nothing yet.
publish_ui_stream_awaits_stream(t) ==
    /\ streams[t].at = "idle"
    /\ \A u \in Streams : u < t => streams[u].at # "idle"
    /\ uuids' = uuids + 1
    /\ streams' = [streams EXCEPT ![t].at = "next",
                                  ![t].stream_id = uuids + 1,
                                  ![t].card_index = 0,
                                  ![t].db_results = db_results,
                                  ![t].query = db_results]
    /\ UNCHANGED <<ctx_vars, loc_vars, location_event, instructions,
                   call_vars, tasks, published, hd, hist_vars, attempted,
                   stream_result, ui_last, tool_vars,
                   granted>>

\* The tool publish_ui_stream (lines 63-74): it creates the task that runs
\* _publish_ui_stream, passing it the value db_results has now, and returns
\* its string without awaiting the task.  A new stream is numbered with the
\* lowest number not yet used.
publish_ui_stream(t) ==
    /\ streams[t].at = "idle"
    /\ \A u \in Streams : u < t => streams[u].at # "idle"
    /\ streams' = [streams EXCEPT ![t].at = "created",
                                  ![t].db_results = db_results]
    /\ stream_result' = [stream_result EXCEPT ![t] = "UI stream published."]
    /\ UNCHANGED <<ctx_vars, loc_vars, location_event, instructions,
                   call_vars, tasks, published, hd, hist_vars, uuids,
                   attempted, ui_last, tool_vars,
                   granted>>

\* Variant of the start of a stream whose stream_id is a fixed value.
stream_start_fixed_id(t) ==
    /\ streams[t].at = "created"
    /\ uuids' = uuids + 1
    /\ streams' = [streams EXCEPT ![t].at = "next",
                                  ![t].stream_id = 1,
                                  ![t].card_index = 0,
                                  ![t].query = streams[t].db_results]
    /\ UNCHANGED <<ctx_vars, loc_vars, location_event, instructions,
                   call_vars, tasks, published, hd, hist_vars, attempted,
                   stream_result, ui_last, tool_vars,
                   granted>>

\* Variant of the start of a stream that reads self.db_results when it calls
\* the generator, in place of its parameter.
stream_start_reads_field(t) ==
    /\ streams[t].at = "created"
    /\ uuids' = uuids + 1
    /\ streams' = [streams EXCEPT ![t].at = "next",
                                  ![t].stream_id = uuids + 1,
                                  ![t].card_index = 0,
                                  ![t].query = db_results]
    /\ UNCHANGED <<ctx_vars, loc_vars, location_event, instructions,
                   call_vars, tasks, published, hd, hist_vars, attempted,
                   stream_result, ui_last, tool_vars,
                   granted>>

\* Lines 418-423: the task starts, draws its stream_id from uuid.uuid4()
\* (a value no earlier call returned), sets card_index to 0, calls
\* query_process_stream with its db_results parameter and suspends in the
\* generator's first __anext__.
stream_start(t) ==
    /\ streams[t].at = "created"
    /\ uuids' = uuids + 1
    /\ streams' = [streams EXCEPT ![t].at = "next",
                                  ![t].stream_id = uuids + 1,
                                  ![t].card_index = 0,
                                  ![t].query = streams[t].db_results]
    /\ UNCHANGED <<ctx_vars, loc_vars, location_event, instructions,
                   call_vars, tasks, published, hd, hist_vars, attempted,
                   stream_result, ui_last, tool_vars,
                   granted>>

\* Lines 421-430: the generator yields a payload; it is stamped with
\* stream_id and the current card_index and handed to _publish_data_packet,
\* where the task suspends in publish_data.
stream_yielded(t) ==
    /\ streams[t].at = "next"
    /\ streams[t].emitted < MaxCards
    /\ streams' = [streams EXCEPT ![t].at = "publish",
                                  ![t].emitted = @ + 1]
    /\ UNCHANGED <<ctx_vars, loc_vars, location_event, instructions,
                   call_vars, tasks, published, hd, hist_vars, uuids,
                   attempted, stream_result, ui_last, tool_vars,
                   granted>>

\* Variant of the return of a card's publish without the increment of
\* line 438.
stream_published_keeps_index(t) ==
    /\ streams[t].at = "publish"
    /\ \E ok \in BOOLEAN :
         LET packet == StreamPacket("card", streams[t].stream_id,
                                    streams[t].card_index) IN
         /\ published' = publish_data_packet(packet, ok)
         /\ attempted' = Append(attempted, [packet |-> packet, ok |-> ok])
    /\ streams' = [streams EXCEPT ![t].at = "next"]
    /\ UNCHANGED <<ctx_vars, loc_vars, location_event, instructions,
                   call_vars, tasks, hd, hist_vars, uuids, stream_result,
                   ui_last, tool_vars,
                   granted>>

\* Variant of the return of a card's publish in which a failure is not
\* swallowed and ends the task.
stream_published_aborts_on_failure(t) ==
    /\ streams[t].at = "publish"
    /\ \E ok \in BOOLEAN :
         LET packet == StreamPacket("card", streams[t].stream_id,
                                    streams[t].card_index) IN
         /\ published' = publish_data_packet(packet, ok)
         /\ attempted' = Append(attempted, [packet |-> packet, ok |-> ok])
         /\ streams' = [streams EXCEPT
                          ![t].at = IF ok THEN "next" ELSE "failed",
                          ![t].card_index = @ + 1]
    /\ UNCHANGED <<ctx_vars, loc_vars, location_event, instructions,
                   call_vars, tasks, hd, hist_vars, uuids, stream_result,
                   ui_last, tool_vars,
                   granted>>

\* Lines 430-438 and 403-412: publish_data returns or raises;
\* _publish_data_packet swallows the failure, card_index is incremented
\* either way and the task suspends in the generator's next __anext__.
stream_published(t) ==
    /\ streams[t].at = "publish"
    /\ \E ok \in BOOLEAN :
         LET packet == StreamPacket("card", streams[t].stream_id,
                                    streams[t].card_index) IN
         /\ published' = publish_data_packet(packet, ok)
         /\ attempted' = Append(attempted, [packet |-> packet, ok |-> ok])
    /\ streams' = [streams EXCEPT ![t].at = "next",
                                  ![t].card_index = @ + 1]
    /\ UNCHANGED <<ctx_vars, loc_vars, location_event, instructions,
                   call_vars, tasks, hd, hist_vars, uuids, stream_result,
                   ui_last, tool_vars,
                   granted>>

\* Lines 421-423: the generator raises (or yields a value that is no dict,
\* on which payload.get raises at line 424); the exception ends the task and
\* no end_of_stream marker is sent.
stream_failed(t) ==
    /\ streams[t].at = "next"
    /\ streams' = [streams EXCEPT ![t].at = "failed"]
    /\ UNCHANGED <<ctx_vars, loc_vars, location_event, instructions,
                   call_vars, tasks, published, hd, hist_vars, uuids,
                   attempted, stream_result, ui_last, tool_vars,
                   granted>>

\* Lines 440-447: the generator is exhausted; the end_of_stream marker with
\* card_count = card_index is handed to _publish_data_packet.
stream_exhausted(t) ==
    /\ streams[t].at = "next"
    /\ streams' = [streams EXCEPT ![t].at = "end"]
    /\ UNCHANGED <<ctx_vars, loc_vars, location_event, instructions,
                   call_vars, tasks, published, hd, hist_vars, uuids,
                   attempted, stream_result, ui_last, tool_vars,
                   granted>>

\* Variant of the end of a stream whose card_count is the last card_index
\* plus one.
stream_ended_counts_from_one(t) ==
    /\ streams[t].at = "end"
    /\ \E ok \in BOOLEAN :
         LET packet == StreamPacket("end_of_stream", streams[t].stream_id,
                                    streams[t].card_index + 1) IN
         /\ published' = publish_data_packet(packet, ok)
         /\ attempted' = Append(attempted, [packet |-> packet, ok |-> ok])
    /\ streams' = [streams EXCEPT ![t].at = "ended"]
    /\ UNCHANGED <<ctx_vars, loc_vars, location_event, instructions,
                   call_vars, tasks, hd, hist_vars, uuids, stream_result,
                   ui_last, tool_vars,
                   granted>>

\* Lines 447-448 and 403-412: publish_data returns or raises for the marker
\* and the task ends.
stream_ended(t) ==
    /\ streams[t].at = "end"
    /\ \E ok \in BOOLEAN :
         LET packet == StreamPacket("end_of_stream", streams[t].stream_id,
                                    streams[t].card_index) IN
         /\ published' = publish_data_packet(packet, ok)
         /\ attempted' = Append(attempted, [packet |-> packet, ok |-> ok])
    /\ streams' = [streams EXCEPT ![t].at = "ended"]
    /\ UNCHANGED <<ctx_vars, loc_vars, location_event, instructions,
                   call_vars, tasks, hd, hist_vars, uuids, stream_result,
                   ui_last, tool_vars, granted>>

\* ------------------------------------------------------------------ tools

\* Everything of the agent that the tools below neither read for writing nor
\* write.
rest_vars == <<ctx_vars, loc_vars, location_event, instructions, call_vars,
               tasks, hd, hist_vars, stream_vars, ui_last, granted>>

\* The runtime invokes a tool: a coroutine starts, with an empty history.
tool_begins ==
    /\ tool.at = "idle"
    /\ tools_made < MaxTools
    /\ tools_made' = tools_made + 1

\* The precondition of calculate_distance_to_destination (line 285, negated).
location_known ==
    location_status = "success" /\ user_lat # None /\ user_lng # None

\* Variant of the start of calculate_distance_to_destination whose guard
\* tests the coordinates only, not the status.
calculate_distance_invoked_coordinates_only ==
    /\ tool_begins
    /\ IF ~(user_lat # None /\ user_lng # None)
       THEN /\ tool' = [NoTool EXCEPT
                  !.name = "calculate_distance_to_destination",
                  !.at = "done", !.result = "guidance"]
            /\ tool_log' = NoToolLog
       ELSE /\ tool' = [NoTool EXCEPT
                  !.name = "calculate_distance_to_destination",
                  !.at = "directions"]
            /\ tool_log' = [NoToolLog EXCEPT !.calls = 1]
    /\ UNCHANGED <<rest_vars, published, db_results>>

\* calculate_distance_to_destination, lines 285-300: the guidance string
\* when the location is not known, else the call of the directions
\* collaborator, in which the tool suspends.
calculate_distance_invoked ==
    /\ tool_begins
    /\ IF ~location_known
       THEN /\ tool' = [NoTool EXCEPT
                  !.name = "calculate_distance_to_destination",
                  !.at = "done", !.result = "guidance"]
            /\ tool_log' = NoToolLog
       ELSE /\ tool' = [NoTool EXCEPT
                  !.name = "calculate_distance_to_destination",
                  !.at = "directions"]
            /\ tool_log' = [NoToolLog EXCEPT !.calls = 1]
    /\ UNCHANGED <<rest_vars, published, db_results>>

\* GoogleMapService.calculate_distance_and_duration (services.py 85-108), as
\* the set of keys of the dict it returns ({} for None): nothing when the
\* destination does not geocode, the address and an error when no route is
\* found, else address, distance and duration.
calculate_distance_and_duration(geocoded, routed) ==
    IF ~geocoded THEN {}
    ELSE IF ~routed THEN {"formatted_address", "error"}
    ELSE {"formatted_address", "distance_text", "duration_text"}

\* What the call of line 296 can give: an error raised, or a result (its
\* keys).  GoogleMapService defines no get_directions, so the attribute
\* lookup raises AttributeError (inside the try); the results of the class's
\* combined geocode-and-route method are admitted as well, for a build in
\* which the name resolves to it.
get_directions ==
    {[raised |-> TRUE, keys |-> {}]}
    \cup {[raised |-> FALSE,
           keys |-> calculate_distance_and_duration(geocoded, routed)] :
            geocoded \in BOOLEAN, routed \in BOOLEAN}

\* The keys lines 308-311 read from a result.
RouteKeys == {"formatted_address", "distance_text", "duration_text",
              "polyline"}

\* History: what the directions call gave, by the branch of lines 302-311
\* it is for.
DirectionsGave(result) ==
    IF result.raised THEN "raised"
    ELSE IF result.keys = {} THEN "nothing"
    ELSE IF "error" \in result.keys THEN "error"
    ELSE "route"

\* Lines 302-330: the directions call returns or raises.  A missing result
\* and a result with an error return their strings; a result that lacks a
\* key read by lines 308-311 raises KeyError, which like every other error
\* is caught at line 328; a result with all keys goes on to publish the
\* polyline.
calculate_distance_directions_returned ==
    /\ tool.name = "calculate_distance_to_destination"
    /\ tool.at = "directions"
    /\ \E result \in get_directions :
         /\ tool_log' = [tool_log EXCEPT !.collab = DirectionsGave(result)]
         /\ tool' =
              IF result.raised
              THEN [tool EXCEPT !.at = "done", !.result = "error"]
              ELSE IF result.keys = {}
              THEN [tool EXCEPT !.at = "done", !.result = "could not geocode"]
              ELSE IF "error" \in result.keys
              THEN [tool EXCEPT !.at = "done", !.result = "found, but"]
              ELSE IF ~(RouteKeys \subseteq result.keys)
              THEN [tool EXCEPT !.at = "done", !.result = "error"]
              ELSE [tool EXCEPT
                      !.at = "publish",
                      !.payload = [topic |-> TOPIC_UI_LOCATION_REQUEST,
                                   type |-> "map.polyline"]]
    /\ UNCHANGED <<rest_vars, published, db_results, tools_made>>

\* Start times the language model may pass to schedule_meeting.
StartTimes == {"2026-02-21T14:00:00", "2026-02-21", "21/02/2026 2pm", ""}

\* datetime.fromisoformat: the datetime of an ISO-8601 date or date-time,
\* ValueError on any other text.
fromisoformat(start_time_iso) ==
    CASE start_time_iso = "2026-02-21T14:00:00" -> "2026-02-21 14:00:00"
      [] start_time_iso = "2026-02-21" -> "2026-02-21 00:00:00"
      [] OTHER -> "ValueError"

\* schedule_meeting, lines 176-194: the invalid-date string when the start
\* time does not parse, else send_calendar_invite is handed to the executor
\* and the tool suspends until it returns.
schedule_meeting_invoked ==
    /\ tool_begins
    /\ \E start_time_iso \in StartTimes :
         IF fromisoformat(start_time_iso) = "ValueError"
         THEN /\ tool' = [NoTool EXCEPT
                    !.name = "schedule_meeting", !.at = "done",
                    !.arg = start_time_iso, !.result = "invalid date"]
              /\ tool_log' = NoToolLog
         ELSE /\ tool' = [NoTool EXCEPT
                    !.name = "schedule_meeting", !.at = "mail",
                    !.arg = start_time_iso]
              /\ tool_log' = [NoToolLog EXCEPT !.calls = 1]
    /\ UNCHANGED <<rest_vars, published, db_results>>

\* What send_calendar_invite meets: no sender credentials configured, an
\* error while composing or sending (SMTP), or a sent invite.
MailRuns == {"unconfigured", "error", "sent"}

\* send_calendar_invite (calender_invite.py 15-123): False without
\* credentials (line 34) and on any error (line 123), True once sent.
send_calendar_invite(run) == run = "sent"

\* Variant of the end of schedule_meeting that reports success whatever
\* send_calendar_invite returned.
schedule_meeting_mail_returned_ignores_result ==
    /\ tool.name = "schedule_meeting"
    /\ tool.at = "mail"
    /\ \E run \in MailRuns :
         /\ tool_log' = [tool_log EXCEPT
                           !.collab = IF send_calendar_invite(run)
                                      THEN "True" ELSE "False"]
         /\ tool' = [tool EXCEPT !.at = "done", !.result = "scheduled"]
    /\ UNCHANGED <<rest_vars, published, db_results, tools_made>>

\* Lines 185-199: send_calendar_invite returns.
schedule_meeting_mail_returned ==
    /\ tool.name = "schedule_meeting"
    /\ tool.at = "mail"
    /\ \E run \in MailRuns :
         LET success == send_calendar_invite(run) IN
         /\ tool_log' = [tool_log EXCEPT
                           !.collab = IF success THEN "True" ELSE "False"]
         /\ tool' = [tool EXCEPT
                       !.at = "done",
                       !.result = IF success THEN "scheduled"
                                  ELSE "failed to send"]
    /\ UNCHANGED <<rest_vars, published, db_results, tools_made>>

\* search_indus_net_knowledge_base, lines 58-60 and 493: the tool suspends
\* in vector_store.search.
search_invoked ==
    /\ tool_begins
    /\ tool' = [NoTool EXCEPT !.name = "search_indus_net_knowledge_base",
                              !.at = "search"]
    /\ tool_log' = [NoToolLog EXCEPT !.calls = 1]
    /\ UNCHANGED <<rest_vars, published, db_results>>

\* What vector_store.search can return: a list of documents (by their
\* page_content), at most db_fetch_size of them.
SearchResults == {<<>>, <<"About us">>, <<"Careers">>}

\* Lines 495-507: one markdown chunk per document, numbered from 1, joined
\* in order (the empty string for no documents).
format_results(results) ==
    [i \in 1 .. Len(results) |-> [result |-> i, content |-> results[i]]]

\* Lines 493-509 and 61: vector_store.search returns, or raises.  Nothing
\* between the call and the tool's caller catches an error, so it leaves the
\* tool; else db_results is overwritten and returned.
search_returned ==
    /\ tool.name = "search_indus_net_knowledge_base"
    /\ tool.at = "search"
    /\ \/ /\ tool' = [tool EXCEPT !.at = "raised", !.result = "Exception"]
          /\ tool_log' = [tool_log EXCEPT !.collab = "raise"]
          /\ UNCHANGED db_results
       \/ \E results \in SearchResults :
            /\ db_results' = format_results(results)
            /\ tool' = [tool EXCEPT !.at = "done", !.result = "db_results"]
            /\ tool_log' = [tool_log EXCEPT !.collab = "results"]
    /\ UNCHANGED <<rest_vars, published, tools_made>>

\* preview_contact_form (lines 95-110) and submit_contact_form (lines
\* 133-138): the tool suspends in asyncio.sleep.
contact_form_invoked(name) ==
    /\ tool_begins
    /\ tool' = [NoTool EXCEPT !.name = name, !.at = "sleep"]
    /\ tool_log' = NoToolLog
    /\ UNCHANGED <<rest_vars, published, db_results>>

\* Lines 99-111 and 140-150: the sleep is over; the tool hands its payload
\* to _publish_data_packet on ui.contact_form and suspends in publish_data.
contact_form_slept ==
    /\ tool.at = "sleep"
    /\ tool' = [tool EXCEPT
                  !.at = "publish",
                  !.payload = [topic |-> TOPIC_CONTACT_FORM,
                               type |-> IF tool.name = "preview_contact_form"
                                        THEN "contact_form"
                                        ELSE "contact_form_submit"]]
    /\ UNCHANGED <<rest_vars, published, db_results, tools_made, tool_log>>

\* get_user_info, lines 206-216: the payload carries the stored user_id and
\* goes to _publish_data_packet on user.details.
get_user_info_invoked ==
    /\ tool_begins
    /\ tool' = [NoTool EXCEPT
                  !.name = "get_user_info", !.at = "publish",
                  !.payload = [topic |-> "user.details", type |-> None,
                               user_id |-> user_id]]
    /\ tool_log' = NoToolLog
    /\ UNCHANGED <<rest_vars, published, db_results>>

\* The string a tool returns after its _publish_data_packet call (lines 113,
\* 152, 217 and 323-326).
ReturnedAfterPublish(name) ==
    CASE name = "preview_contact_form" -> "displayed on UI"
      [] name = "submit_contact_form" -> "submitted successfully"
      [] name = "get_user_info" -> "User information published."
      [] OTHER -> "distance and duration"

\* _publish_data_packet returns to the tool, True or False; no tool reads
\* what it returns, and each goes on to its return statement.
tool_published ==
    /\ tool.at = "publish"
    /\ \E ok \in BOOLEAN :
         /\ published' = publish_data_packet(tool.payload, ok)
         /\ tool_log' = [tool_log EXCEPT
                           !.sent = IF ok THEN "ok" ELSE "failed"]
    /\ tool' = [tool EXCEPT !.at = "done",
                            !.result = ReturnedAfterPublish(tool.name)]
    /\ UNCHANGED <<rest_vars, db_results, tools_made>>

\* The runtime takes the result of a finished tool call (its string, or the
\* exception it raised).
tool_returned ==
    /\ tool.at \in {"done", "raised"}
    /\ tool' = NoTool
    /\ tool_log' = NoToolLog
    /\ UNCHANGED <<rest_vars, published, db_results, tools_made>>

\* ------------------------------------------------------------ environment

\* History record of a user.location object handled now.
PacketSrc(data, late) ==
    IF data.topic = TOPIC_USER_LOCATION /\ data.form = "object"
    THEN Src("packet", data.body.status, data.body.latitude,
             data.body.longitude, {c \in Calls : pc[c] # "idle"}, late,
             "nothing")
    ELSE NoSrc

\* The room delivers a user.location packet with a JSON object: the
\* frontend's answer to a pending request, an unsolicited packet, or (late)
\* its answer to a request whose call has timed out.
LocationPackets ==
    {data \in PacketsOn(TOPIC_USER_LOCATION) : data.form = "object"}

FrontendLocation ==
    \E data \in LocationPackets :
        \E late \in BOOLEAN :
            /\ late => stale_request
            /\ handle_data(data, PacketSrc(data, late))
            /\ UNCHANGED <<hd, ext_vars>>

\* The packets the topic router is run on: every form of payload on every
\* topic, with the JSON objects that differ in the branch they take.
RouterPackets(topic) ==
    {data \in PacketsOn(topic) :
        data.form = "object" =>
            CASE topic = TOPIC_USER_LOCATION ->
                   /\ data.body.status \in {"success", "denied"}
                   /\ data.body.latitude \in {"12.9", None}
              [] topic = "user.context" ->
                   \/ data.body.user_info = "scalar"
                   \/ data.body.user_name = "Guest"
                   \/ data.body.user_name = "Asha" /\ data.body.user_phone = "555"
              [] topic = "ui.context" ->
                   data.body.active_elements = <<"hero">>
              [] OTHER -> TRUE}

ContextPackets == UNION {RouterPackets(topic) : topic \in FRONTEND_CONTEXT}
ForeignPackets == UNION {RouterPackets(topic) : topic \in ForeignTopics}

\* The room delivers a packet on any topic.
FrontendPacket ==
    \E data \in ContextPackets \cup ForeignPackets :
            /\ Len(tasks) + Len(TasksCreated(data, Route(data))) <= MaxTasks
            /\ handle_data(data, PacketSrc(data, FALSE))
            /\ hd' = Handled(data)
            /\ UNCHANGED ext_vars

\* The conversational runtime invokes request_user_location and the event
\* loop runs its steps.
ToolCalls ==
    \E c \in Calls :
        \/ request_user_location_reset(c)
        \/ request_user_location_wait(c)
        \/ request_user_location_timeout(c)
        \/ request_user_location_woken(c)
        \/ request_user_location_geocoded(c)
        \/ request_user_location_returned(c)

\* The event loop runs a step of a background task.
BackgroundTasks ==
    \E i \in 1 .. Len(tasks) :
        \/ task_start(i)
        \/ task_context_updated(i)
        \/ task_pushed(i)

\* The runtime invokes publish_ui_stream and the event loop runs the steps
\* of the card streams.
CardStreams ==
    \E t \in Streams :
        \/ publish_ui_stream(t)
        \/ stream_start(t)
        \/ stream_yielded(t)
        \/ stream_published(t)
        \/ stream_failed(t)
        \/ stream_exhausted(t)
        \/ stream_ended(t)

\* The location rendezvous: tool calls against user.location packets.
Next == FrontendLocation \/ ToolCalls

Spec == Init /\ [][Next]_vars

\* The event loop resumes a call whose wait is complete, and the timer of
\* asyncio.wait_for fires when it is not.
FairSpec ==
    /\ Spec
    /\ \A c \in Calls :
         WF_vars(request_user_location_timeout(c)
                 \/ request_user_location_woken(c))

\* The topic router and the tasks it creates.
NextRouter == FrontendPacket \/ BackgroundTasks

SpecRouter == Init /\ [][NextRouter]_vars

\* Session State a rebuild can find: names, emails, phones and element
\* lists that user.context and ui.context packets can have stored.
Names == {None, "", "guest", "Guest", "GUEST", "Asha"}
Emails == {None, "", "a@x.io"}
Phones == {None, "555"}
ElementLists == {<<>>, <<"hero">>, <<"hero", "pricing">>}

InitRebuild ==
    /\ user_id = None /\ user_name \in Names /\ user_email \in Emails
    /\ user_phone \in Phones /\ active_elements \in ElementLists
    /\ location_status = None /\ user_lat = None /\ user_lng = None
    /\ location_accuracy = None /\ location_event = FALSE
    /\ instructions = NoText
    /\ pc = [c \in Calls |-> "idle"]
    /\ signalled = [c \in Calls |-> FALSE]
    /\ frame = [c \in Calls |-> NoFrame]
    /\ outcome = [c \in Calls |-> NoOutcome]
    /\ tasks = <<>>
    /\ published = <<>>
    /\ hd = [exit |-> "none", warned |-> FALSE]
    /\ status_src = NoSrc /\ event_src = NoSrc
    /\ woken_by = [c \in Calls |-> NotSeen]
    /\ calls_made = 0
    /\ stale_request = FALSE
    /\ streams = [t \in Streams |-> NoStream]
    /\ uuids = 0
    /\ attempted = <<>>
    /\ stream_result = [t \in Streams |-> None]
    /\ ui_last = NoUiLast
    /\ db_results = <<>>
    /\ tool = NoTool
    /\ tools_made = 0
    /\ tool_log = NoToolLog
    /\ granted = FALSE

\* _update_instructions() is called (lines 366 and 529): a rebuild starts.
rebuild_invoked ==
    /\ Len(tasks) < MaxTasks
    /\ tasks' = Append(tasks, [kind |-> "instr", at |-> "created",
                               payload |-> NoPacket, text |-> NoText])
    /\ UNCHANGED <<ctx_vars, loc_vars, location_event, instructions,
                   call_vars, published, hd, hist_vars, ext_vars>>

\* The instruction builder alone: rebuilds on a Session State that no
\* packet changes meanwhile.
NextRebuild == rebuild_invoked \/ BackgroundTasks

SpecRebuild == InitRebuild /\ [][NextRebuild]_vars

\* The ui.context and user.context packets that carry a JSON object.
ContextUpdates ==
    {data \in PacketsOn("ui.context") :
        /\ data.form = "object"
        /\ data.body.has_elements => data.body.viewport # "absent"
        /\ data.body.viewport = "object" \/ data.body.has_elements}
    \cup {data \in PacketsOn("user.context") :
            /\ data.form = "object"
            /\ data.body.user_info = "object"
            /\ data.body.user_name \in {"Asha", "Guest"}
            /\ data.body.user_phone = None}

\* History of the ui.context packet handled now: its element list, seen when
\* its viewport is an object (or missing).
UiLast(data) ==
    IF data.topic = "ui.context"
    THEN [seen |-> data.body.viewport # "scalar",
          elements |-> PayloadElements(data.body)]
    ELSE ui_last

\* The room delivers a ui.context or user.context packet.
ContextPacket ==
    \E data \in ContextUpdates :
        /\ Len(tasks) + Len(TasksCreated(data, Route(data))) <= MaxTasks
        /\ handle_data(data, PacketSrc(data, FALSE))
        /\ ui_last' = UiLast(data)
        /\ UNCHANGED <<hd, stream_vars, tool_vars, granted>>

\* The context store and the instruction builder: ui.context and
\* user.context packets against the tasks they create.
NextContext == ContextPacket \/ BackgroundTasks

SpecContext == Init /\ [][NextContext]_vars

\* The card stream publisher: publish_ui_stream tool calls and their tasks.
NextStream == CardStreams

SpecStream == Init /\ [][NextStream]_vars

\* The runtime invokes a tool that reads the Session State (the location
\* for a distance, the user id for the user details) and the event loop runs
\* the steps of its call.
StateTools ==
    \/ calculate_distance_invoked
    \/ calculate_distance_directions_returned
    \/ get_user_info_invoked
    \/ tool_published
    \/ tool_returned

\* The runtime invokes a tool that works on its arguments alone (search,
\* meeting, contact forms) and the event loop runs the steps of its call.
ArgumentTools ==
    \/ schedule_meeting_invoked
    \/ schedule_meeting_mail_returned
    \/ search_invoked
    \/ search_returned
    \/ \E name \in {"preview_contact_form", "submit_contact_form"} :
         contact_form_invoked(name)
    \/ contact_form_slept
    \/ tool_published
    \/ tool_returned

\* One request_user_location call at a time, as the conversational runtime
\* makes them when it waits for each tool result.
LocationCall ==
    \/ request_user_location_reset(1)
    \/ request_user_location_wait(1)
    \/ request_user_location_timeout(1)
    \/ request_user_location_woken(1)
    \/ request_user_location_geocoded(1)
    \/ request_user_location_returned(1)

\* A user.location packet whose object reports success and carries no
\* latitude.
PartialLocationPackets ==
    {[topic |-> TOPIC_USER_LOCATION, form |-> "object",
      body |-> [NoBody EXCEPT !.status = "success", !.longitude = "77.6"]]}

\* The room delivers such a packet.
FrontendPartialLocation ==
    \E data \in PartialLocationPackets :
        /\ handle_data(data, PacketSrc(data, FALSE))
        /\ UNCHANGED <<hd, ext_vars>>

\* The distance tool against the location rendezvous: user.location
\* packets, one request_user_location call at a time, and the tools that
\* read the Session State.
NextDistance ==
    FrontendLocation \/ FrontendPartialLocation \/ LocationCall \/ StateTools

SpecDistance == Init /\ [][NextDistance]_vars

\* The tools that call the search and mail collaborators and publish the
\* contact form.
NextTools == ArgumentTools

SpecTools == Init /\ [][NextTools]_vars

\* Every user.context packet: each form of payload, and every object.
UserPackets == PacketsOn("user.context")

\* The room delivers a user.context packet.
FrontendUserContext ==
    \E data \in UserPackets :
        /\ Len(tasks) + Len(TasksCreated(data, Route(data))) <= MaxTasks
        /\ handle_data(data, PacketSrc(data, FALSE))
        /\ hd' = Handled(data)
        /\ UNCHANGED ext_vars

\* The event loop runs a step of a rebuild task.
RebuildTasks ==
    \E i \in 1 .. Len(tasks) : task_start(i) \/ task_pushed(i)

\* The user identity: user.context packets and the rebuilds they trigger,
\* against the tool that reads the identity.
NextIdentity ==
    \/ FrontendUserContext
    \/ RebuildTasks
    \/ get_user_info_invoked
    \/ tool_published
    \/ tool_returned

SpecIdentity == Init /\ [][NextIdentity]_vars

\* The search tool against the card streams: searches overwrite db_results
\* while streams that were started from it run.
NextSearchStream ==
    search_invoked \/ search_returned \/ tool_returned \/ CardStreams

SpecSearchStream == Init /\ [][NextSearchStream]_vars

\* ------------------------------------------------------------- properties

\* Call c leaves its wait because the event was set.
Resumes(c) ==
    pc[c] = "wait" /\ signalled[c] /\ pc'[c] \in {"geocode", "done"}

\* Call c produces its result in this step.
Finishes(c) ==
    pc[c] \in {"wait", "geocode"} /\ pc'[c] \in {"done", "raised"}

\* handle_data runs on a user.location packet that carries a JSON object.
HandlesLocation ==
    \E data \in LocationPackets : \E late \in BOOLEAN :
        /\ status_src' = PacketSrc(data, late)
        /\ handle_data(data, PacketSrc(data, late))

\* C1: a call that was waiting when a user.location packet with status
\* "success" and coordinates was handled returns the success outcome with
\* that packet's latitude and longitude, whatever is handled or called
\* between its wake-up and its return.
C1_SuccessReturnsPacketCoordinates ==
    [][\A c \in Calls :
          (Finishes(c) /\ woken_by[c].by = "packet" /\ woken_by[c].success)
          => /\ pc'[c] = "done"
             /\ outcome'[c].kind = "success"
             /\ outcome'[c].lat = woken_by[c].latitude
             /\ outcome'[c].lng = woken_by[c].longitude]_vars

\* C2: a call woken by the signal returns exactly one of four outcomes,
\* chosen by the location status: denied, unsupported, success, and unknown
\* for every other value.
C2_WokenOutcomeFollowsStatus ==
    [][\A c \in Calls :
          /\ Resumes(c) =>
               CASE location_status = "success" -> pc'[c] = "geocode"
                 [] location_status = "denied" ->
                      pc'[c] = "done" /\ outcome'[c].kind = "denied"
                 [] location_status = "unsupported" ->
                      pc'[c] = "done" /\ outcome'[c].kind = "unsupported"
                 [] OTHER ->
                      pc'[c] = "done" /\ outcome'[c].kind = "unknown"
          /\ (pc[c] = "geocode" /\ pc'[c] # "geocode")
               => pc'[c] = "done" /\ outcome'[c].kind = "success"]_vars

\* C3: the wait of every call ends; it ends either because the event was
\* set or with the timed-out outcome, and the timed-out outcome is the same
\* whatever the location status and coordinates are.
C3_WaitEnds ==
    /\ \A c \in Calls : (pc[c] = "wait") ~> (pc[c] # "wait")
    /\ [][\A c \in Calls :
             (pc[c] = "wait" /\ pc'[c] # "wait")
             => \/ Resumes(c)
                \/ /\ ~signalled[c]
                   /\ pc'[c] = "done"
                   /\ outcome'[c] =
                        Outcome("timeout", None, None, None, None)]_vars

\* A call has timed out.
C3_Witness ==
    \E c \in Calls : pc[c] = "done" /\ outcome[c].kind = "timeout"

\* C4: handling a user.location packet sets the wake signal whatever its
\* status is, and completes the wait of every call that is waiting.
C4_LocationPacketAlwaysSignals ==
    [][HandlesLocation
       => /\ location_event'
          /\ \A c \in Calls : pc[c] = "wait" => signalled'[c]]_vars

\* A waiting call has been woken by a packet whose status is not "success".
C4_Witness ==
    \E c \in Calls :
        /\ pc[c] = "wait" /\ signalled[c]
        /\ woken_by[c].by = "packet" /\ ~woken_by[c].success
        /\ location_status \in {"denied", "unsupported", "other", None}
        /\ location_event

\* C5: a call resets the status, the coordinates and the signal before it
\* publishes the request and before it waits, so what a call acts on when
\* it resumes was never written by a packet handled before the call began.
C5_ResetBeforeRequest ==
    [][\A c \in Calls :
          /\ (pc[c] = "idle" /\ pc'[c] # "idle")
               => /\ pc'[c] = "publish"
                  /\ location_status' = None
                  /\ user_lat' = None
                  /\ user_lng' = None
                  /\ location_accuracy' = None
                  /\ ~location_event'
                  /\ published' = published
          /\ (pc[c] = "publish" /\ pc'[c] # "publish")
               => /\ pc'[c] = "wait"
                  /\ signalled'[c]
                       => event_src.by = "packet" /\ c \in event_src.started
          /\ (Resumes(c) /\ status_src.by = "packet")
               => c \in status_src.started]_vars

\* A call whose reset wiped a response handled before it began is waiting
\* and has not been woken.
C5_Witness ==
    \E c \in Calls :
        /\ pc[c] = "wait" /\ ~signalled[c]
        /\ status_src.by = "reset" /\ status_src.wiped = "response"
        /\ event_src.by = "reset" /\ event_src.wiped = "response"
        /\ location_status = None /\ ~location_event

\* C6: at most one call of request_user_location is between its reset and
\* its return at any time.
C6_AtMostOneCycleInFlight ==
    Cardinality({c \in Calls : pc[c] \in {"publish", "wait", "geocode"}}) <= 1

\* C7: a call never acts on a response that was sent in reply to the
\* request of an earlier call that had timed out.
C7_LateResponseNeverObserved ==
    [][\A c \in Calls :
          Resumes(c) => ~(status_src.by = "packet" /\ status_src.late)]_vars

\* C8: the coordinates and the accuracy are present only while the status
\* is "success".
C8_CoordinatesOnlyWhenSuccess ==
    location_status # "success"
    => user_lat = None /\ user_lng = None /\ location_accuracy = None

\* handle_data runs on packet data, delivered by the room.
Handles(data) ==
    /\ hd' = Handled(data)
    /\ handle_data(data, PacketSrc(data, FALSE))

\* handle_data leaves the agent's state, its tasks and what it has published
\* as they were.
NoStateChange ==
    UNCHANGED <<ctx_vars, loc_vars, location_event, instructions, call_vars,
                tasks, published, hist_vars>>

\* C9: a packet whose topic is not one of ui.context, user.context and
\* user.location makes handle_data return at the topic filter with no
\* change of state and nothing logged at warning level.
C9_ForeignTopicIgnored ==
    [][\A data \in ForeignPackets :
          Handles(data)
          => hd'.exit = "topic" /\ ~hd'.warned /\ NoStateChange]_vars

\* A packet on a foreign topic was the last one handled, by an agent that
\* holds a user, a location signal and a running task.
C9_Witness ==
    /\ hd.exit = "topic"
    /\ user_name = "Asha"
    /\ location_event
    /\ Len(tasks) > 0

C11_HandleDataNeverRaises ==
    hd.exit # "raise"

\* The packets a card stream handed to _publish_data_packet, and those that
\* reached the room, for one stream_id.
AttemptsOf(id) ==
    SelectSeq(attempted, LAMBDA a : a.packet.stream_id = id)

WireOf(id) ==
    SelectSeq(published, LAMBDA p : p.stream_id = id)

CardsOf(seq) ==
    SelectSeq(seq, LAMBDA p : p.type = "card")

\* C12: a stream whose generator yielded N payloads and was exhausted has
\* handed to the room exactly N card packets with card_index 0 .. N-1 in
\* that order and then one end_of_stream packet with card_count N, all with
\* the stream's stream_id; when every publish succeeded that is what the
\* room has for the stream.
C12_StreamPublishesCardsThenMarker ==
    \A t \in Streams :
        streams[t].at = "ended" =>
            LET id == streams[t].stream_id
                N == streams[t].emitted
                A == AttemptsOf(id)
            IN /\ Len(A) = N + 1
               /\ \A i \in 1 .. N :
                    A[i].packet = StreamPacket("card", id, i - 1)
               /\ A[N + 1].packet = StreamPacket("end_of_stream", id, N)
               /\ (\A i \in 1 .. N + 1 : A[i].ok)
                    => WireOf(id) = [i \in 1 .. N + 1 |-> A[i].packet]

\* A stream of two cards has ended with every publish successful.
C12_Witness ==
    \E t \in Streams :
        /\ streams[t].at = "ended" /\ streams[t].emitted = 2
        /\ Len(WireOf(streams[t].stream_id)) = 3

\* C13: a publish that fails leaves the stream running with the next
\* card_index; in a finished stream every payload the generator yielded was
\* attempted exactly once, failed or not, and the end_of_stream marker was
\* attempted with card_count equal to the number of payloads yielded.
C13_FailedPublishDoesNotAbort ==
    /\ [][\A t \in Streams :
             (streams[t].at = "publish" /\ streams'[t].at # "publish")
             => /\ streams'[t].at = "next"
                /\ streams'[t].card_index = streams[t].card_index + 1
                /\ Len(attempted') = Len(attempted) + 1]_vars
    /\ [](\A t \in Streams :
             streams[t].at = "ended" =>
                 LET id == streams[t].stream_id
                     A == AttemptsOf(id)
                 IN /\ \A n \in 0 .. streams[t].emitted - 1 :
                         Cardinality({i \in DOMAIN A :
                             A[i].packet = StreamPacket("card", id, n)}) = 1
                    /\ Cardinality({i \in DOMAIN A :
                           A[i].packet.type = "end_of_stream"}) = 1
                    /\ A[Len(A)].packet =
                         StreamPacket("end_of_stream", id,
                                      streams[t].emitted))

\* A stream of two cards has ended after the publish of its first card
\* failed and that of its second succeeded.
C13_Witness ==
    \E t \in Streams :
        LET A == AttemptsOf(streams[t].stream_id) IN
        /\ streams[t].at = "ended" /\ streams[t].emitted = 2
        /\ Len(A) = 3 /\ ~A[1].ok /\ A[2].ok

HighestSeen(id, k) ==
    LET seen == {published[i].index : i \in
                    {i \in 1 .. k - 1 : published[i].type = "card"
                                        /\ published[i].stream_id = id}}
    IN IF seen = {} THEN -1
       ELSE CHOOSE n \in seen : \A m \in seen : m <= n

NoCardAfter(k) ==
    \A i \in k + 1 .. Len(published) :
        ~(published[i].type = "card"
          /\ published[i].stream_id = published[k].stream_id)

\* C15: the card_count of every end_of_stream marker that reached the room
\* is the highest card_index that reached the room for its stream_id plus
\* one (0 with no card), and no card of that stream_id follows the marker.
C15_CountIsHighestSeenPlusOne ==
    \A k \in DOMAIN published :
        published[k].type = "end_of_stream" =>
            /\ published[k].index = HighestSeen(published[k].stream_id, k) + 1
            /\ NoCardAfter(k)

\* C15 as the code has it: the card_count is the number of payloads the
\* generator yielded; it is at least the highest card_index that reached
\* the room plus one, and equal to it exactly when the stream had no payload
\* or the publish of its last card succeeded; no card of that stream_id
\* follows the marker.
C15_CountIsEmittedCount ==
    \A k \in DOMAIN published :
        published[k].type = "end_of_stream" =>
            LET id == published[k].stream_id
                N == published[k].index
                high == HighestSeen(id, k)
            IN /\ \E t \in Streams :
                    streams[t].stream_id = id /\ streams[t].emitted = N
               /\ N >= high + 1
               /\ (N = high + 1) <=>
                    (N = 0 \/ \E i \in 1 .. k - 1 :
                                 published[i] = StreamPacket("card", id, N - 1))
               /\ NoCardAfter(k)

\* A marker with card_count 2 has reached the room after card 0 did and
\* card 1 did not.
C15_Witness ==
    \E k \in DOMAIN published :
        /\ published[k].type = "end_of_stream" /\ published[k].index = 2
        /\ HighestSeen(published[k].stream_id, k) = 0

\* C16: publish_ui_stream returns its acknowledgment in the step that
\* creates the stream task: nothing has been handed to the room by then, and
\* no later step of the stream, failure included, changes what was returned.
C16_ToolReturnsWithoutAwaiting ==
    [][\A t \in Streams :
          /\ (streams[t].at = "idle" /\ streams'[t].at # "idle")
               => /\ streams'[t].at = "created"
                  /\ stream_result'[t] = "UI stream published."
                  /\ published' = published /\ attempted' = attempted
          /\ streams[t].at # "idle"
               => stream_result'[t] = "UI stream published."]_vars

\* A stream has failed in its generator after its tool call returned.
C16_Witness ==
    \E t \in Streams :
        /\ streams[t].at = "failed"
        /\ stream_result[t] = "UI stream published."
        /\ attempted # <<>>

\* C17: rebuilds on one Session State compose the same text, so a rebuild
\* that follows another leaves the agent's instructions as they are, and no
\* step of a rebuild changes the Session State.
C17_RebuildDeterministicIdempotent ==
    /\ [](\A i, j \in DOMAIN tasks :
             (tasks[i].at = "push" /\ tasks[j].at = "push")
             => tasks[i].text = tasks[j].text)
    /\ [][/\ instructions # NoText => instructions' = instructions
          /\ ctx_vars' = ctx_vars]_vars

\* A second rebuild has composed its text after the first one was pushed.
C17_Witness ==
    /\ instructions # NoText
    /\ \E i \in DOMAIN tasks :
          tasks[i].at = "push" /\ tasks[i].text = instructions

\* The user block the Session State calls for.
ExpectedUserBlock ==
    IF user_name \in {None, "", "guest", "Guest", "GUEST"}
    THEN <<"User Identity: Unknown">>
    ELSE <<"Current User Information", user_name,
           IF user_email \in {None, ""} THEN "Not provided" ELSE user_email,
           IF user_phone \in {None, ""} THEN "Not provided" ELSE user_phone>>

\* C18: every rebuilt text is the base text, then one user block (the
\* guest block for a name that is absent, empty or "guest" in any casing,
\* else the personalized block with "Not provided" for a missing email or
\* phone), then the UI block listing the active elements exactly when there
\* are any.
C18_RebuiltTextStructure ==
    /\ \A i \in DOMAIN tasks :
          tasks[i].at = "push" =>
              /\ tasks[i].text.base
              /\ tasks[i].text.user = ExpectedUserBlock
              /\ tasks[i].text.ui = active_elements
    /\ instructions # NoText =>
          /\ instructions.base
          /\ instructions.user = ExpectedUserBlock
          /\ instructions.ui = active_elements

\* The text for a user named "GUEST" with elements on screen has been
\* pushed.
C18_Witness ==
    /\ user_name = "GUEST"
    /\ active_elements # <<>>
    /\ instructions.user = <<"User Identity: Unknown">>
    /\ instructions.ui = active_elements

\* C19: once every rebuild that packets have triggered is complete, the
\* instructions the agent holds are the text of the current Session State,
\* whenever packets have changed that state.
C19_InstructionsFollowStore ==
    (/\ tasks = <<>>
     /\ <<user_id, user_name, user_email, user_phone, active_elements>>
          # <<None, None, None, None, <<>> >>)
    => instructions = InstructionText(user_name, user_email, user_phone,
                                      active_elements)

\* C20: once the tasks of the ui.context packets handled so far are
\* finished, the active elements are the element list of the last one
\* handled.
C20_LastUiContextWins ==
    (/\ ui_last.seen
     /\ \A i \in DOMAIN tasks : tasks[i].kind # "ui")
    => active_elements = ui_last.elements

\* C23: the reverse-geocode lookup is best-effort.  Whatever the geocoder
\* gives back (an address, or None when it failed or found nothing), the
\* call that was woken with status "success" returns the success outcome
\* with the coordinates the agent holds and the accuracy it had formatted.
C23_GeocodeBestEffort ==
    [][\A c \in Calls :
          (pc[c] = "geocode" /\ pc'[c] # "geocode")
          => /\ pc'[c] = "done"
             /\ outcome'[c].kind = "success"
             /\ outcome'[c].lat = user_lat
             /\ outcome'[c].lng = user_lng
             /\ outcome'[c].accuracy = frame[c].accuracy]_vars

\* A task composes its text in this step: it was created (or waited for the
\* card generator) and is now suspended in Agent.update_instructions.
Composes(i) ==
    /\ Len(tasks') = Len(tasks)
    /\ tasks[i].at # "push"
    /\ tasks'[i].at = "push"

\* The task at position i ends in this step with its text pushed.
Pushes(i) ==
    /\ tasks[i].at = "push"
    /\ tasks' = RemoveAt(tasks, i)

\* C30: the text a rebuild composes is the text of the Session State (name,
\* email, phone and active elements) as it is at the one instant the rebuild
\* composes it, and the text pushed to the agent is that text unchanged,
\* whatever packets and other rebuilds ran between composing and pushing.
C30_PushedTextIsOneSnapshot ==
    [][\A i \in DOMAIN tasks :
          /\ Composes(i)
               => tasks'[i].text = InstructionText(user_name', user_email',
                                                   user_phone',
                                                   active_elements')
          /\ Pushes(i) => instructions' = tasks[i].text]_vars

\* A personalized text with a UI block was pushed after packets had changed
\* the Session State it was composed from.
C30_Witness ==
    /\ instructions.user # <<>>
    /\ instructions.user[1] = "Current User Information"
    /\ instructions.ui # <<>>
    /\ instructions # InstructionText(user_name, user_email, user_phone,
                                      active_elements)

\* C21: a call of calculate_distance_to_destination made while the status
\* is not "success", or the latitude or the longitude is unset, returns the
\* guidance string at once: it calls no collaborator, publishes nothing and
\* changes nothing of the agent's state.
C21_UnknownLocationReturnsGuidance ==
    [][(/\ tool.at = "idle"
        /\ tool'.name = "calculate_distance_to_destination"
        /\ ~location_known)
       => /\ tool'.at = "done"
          /\ tool'.result = "guidance"
          /\ tool_log'.calls = 0
          /\ UNCHANGED <<published, db_results, rest_vars>>]_vars

\* The guidance string was returned while the status was "success" and the
\* latitude unset.
C21_Witness ==
    /\ tool.name = "calculate_distance_to_destination"
    /\ tool.result = "guidance"
    /\ location_status = "success"
    /\ user_lat = None

\* C27: when the directions call ends, the tool goes on to publish a
\* map.polyline packet on ui.location_request if and only if the
\* collaborator gave a complete route; on no result it returns the "could
\* not geocode" string, on a result with an error the qualified message, on
\* a raised error the error string, and in these three cases it publishes
\* nothing.
C27_PolylineIffCompleteRoute ==
    [][(tool.at = "directions" /\ tool'.at # "directions")
       => IF tool_log'.collab = "route"
          THEN /\ tool'.at = "publish"
               /\ tool'.payload = [topic |-> TOPIC_UI_LOCATION_REQUEST,
                                   type |-> "map.polyline"]
          ELSE /\ tool'.at = "done"
               /\ published' = published
               /\ tool'.result =
                    CASE tool_log'.collab = "nothing" -> "could not geocode"
                      [] tool_log'.collab = "error" -> "found, but"
                      [] OTHER -> "error"]_vars

\* C29: whenever calculate_distance_to_destination has called the directions
\* collaborator, some request_user_location call has returned the success
\* outcome before.
C29_DirectionsOnlyAfterGrantedLocation ==
    (tool.name = "calculate_distance_to_destination" /\ tool_log.calls > 0)
    => granted

\* C22: no tool call raises: whatever the vector search, maps, mail and
\* publish collaborators do, every tool call ends with a returned string.
C22_NoToolRaises ==
    /\ tool.at # "raised"
    /\ \A c \in Calls : pc[c] # "raised"

\* C25: schedule_meeting never raises.  On a start time that does not parse
\* it returns the invalid-date string and has not called the mail
\* collaborator; on one that parses it calls the mail collaborator once, and
\* returns the success text when that returned True and the failure text
\* when it returned False.
C25_ScheduleMeetingOutcomes ==
    [][/\ (tool.at = "idle" /\ tool'.name = "schedule_meeting")
          => IF fromisoformat(tool'.arg) = "ValueError"
             THEN /\ tool'.at = "done"
                  /\ tool'.result = "invalid date"
                  /\ tool_log'.calls = 0
             ELSE /\ tool'.at = "mail"
                  /\ tool_log'.calls = 1
       /\ (tool.at = "mail" /\ tool'.at # "mail")
          => /\ tool'.at = "done"
             /\ tool_log'.calls = 1
             /\ tool_log'.collab \in {"True", "False"}
             /\ tool'.result = IF tool_log'.collab = "True"
                               THEN "scheduled" ELSE "failed to send"]_vars

\* A start time parsed, the mail collaborator was called once and returned
\* False, and the tool returned the failure text.
C25_Witness ==
    /\ tool.name = "schedule_meeting"
    /\ tool.at = "done"
    /\ fromisoformat(tool.arg) # "ValueError"
    /\ tool_log.calls = 1
    /\ tool_log.collab = "False"
    /\ tool.result = "failed to send"

\* C28: preview_contact_form and submit_contact_form return their
\* confirmation ("displayed on UI", "submitted successfully") only when the
\* contact-form packet was published.
C28_ConfirmationOnlyWhenPublished ==
    (/\ tool.at = "done"
     /\ tool.name \in {"preview_contact_form", "submit_contact_form"}
     /\ tool.result \in {"displayed on UI", "submitted successfully"})
    => tool_log.sent = "ok"

\* C24: within a session no step (packet, rebuild or tool call) takes a
\* stored user id, name, email or phone back to absent.
C24_IdentityNeverReset ==
    [][/\ user_id # None => user_id' # None
       /\ user_name # None => user_name' # None
       /\ user_email # None => user_email' # None
       /\ user_phone # None => user_phone' # None]_vars

\* The user.context packets whose payload is JSON.
ParsedUserPackets ==
    {data \in UserPackets : JsonParses(extract_payload_text(data))}

\* C26: when handle_data has run on a user.context packet whose payload is
\* JSON, the four identity fields are those of the payload's user_info (absent
\* where it has none), a rebuild task was created if and only if the name
\* now stored is present and is not "guest" in any casing, and the location
\* state, the event and the active elements are as before.
C26_UserContextStoresAndRebuilds ==
    [][\A data \in ParsedUserPackets :
          Handles(data)
          => /\ user_id' = UserInfoGet(data.body, "user_id")
             /\ user_name' = UserInfoGet(data.body, "user_name")
             /\ user_email' = UserInfoGet(data.body, "user_email")
             /\ user_phone' = UserInfoGet(data.body, "user_phone")
             /\ tasks' =
                  IF user_name' \notin {None, "", "guest", "Guest", "GUEST"}
                  THEN Append(tasks, [kind |-> "instr", at |-> "created",
                                      payload |-> NoPacket, text |-> NoText])
                  ELSE tasks
             /\ UNCHANGED <<loc_vars, location_event, active_elements>>]_vars

\* C31: a card stream calls the card generator with the db_results value
\* that was current when publish_ui_stream was invoked.  The value the
\* stream holds is the one of that instant, no step changes it afterwards
\* (not a search that overwrites db_results meanwhile either), it is what
\* query_process_stream is called with, and no step of a stream writes
\* db_results.
C31_StreamUsesResultsOfInvocation ==
    [][\A t \in Streams :
          /\ (streams[t].at = "idle" /\ streams'[t].at # "idle")
               => streams'[t].db_results = db_results
          /\ streams[t].at # "idle"
               => streams'[t].db_results = streams[t].db_results
          /\ (streams[t].at = "created" /\ streams'[t].at # "created")
               => streams'[t].query = streams[t].db_results
          /\ streams[t].at \notin {"idle", "created"}
               => streams'[t].query = streams[t].query
          /\ streams'[t] # streams[t] => db_results' = db_results]_vars

\* A stream has called the generator with the results it was invoked with,
\* after a search had overwritten db_results with other results.
C31_Witness ==
    \E t \in Streams :
        /\ streams[t].at \notin {"idle", "created"}
        /\ streams[t].query # <<>>
        /\ db_results # <<>>
        /\ streams[t].query # db_results

====
